---- MODULE Spec2Model ----
(***************************************************************************)
(* Model of causalinference/src/utils/causal_utils.py:                     *)
(*   random_data(N, K, unobservables, **kwargs)   lines 5-63               *)
(*   is_match_parenthesis(str_list)               lines 66-83              *)
(* Each function is a state machine whose steps are the statements of the  *)
(* source; the locals keep the names they have in the source.              *)
(***************************************************************************)
EXTENDS Integers, Sequences, FiniteSets, TLC

\* ------------------------------------------------------------------ bounds
MaxLen == 4      \* longest token list given to is_match_parenthesis
MaxN == 2        \* largest number of units N given to random_data
MaxK == 2        \* largest K, and largest dimension of a supplied parameter

VARIABLES
    \* is_match_parenthesis
    str_list,       \* the argument
    idx,            \* position of the for loop: the next token to take
    stack,          \* the local list
    ppc,            \* "idle", "loop" or "done"
    pret,           \* the returned value (meaningful when ppc = "done")
    early,          \* TRUE when the return was the one of line 79
    \* random_data: arguments
    N, K, unobservables, kwargs,
    \* random_data: the shared pseudorandom source (np.random), its state at
    \* the entry of the call, and the warnings issued
    rng, rng0, warnings,
    \* random_data: locals
    mu, beta, theta, delta, Sigma, Gamma,
    X, Xbeta, pscore, T, epsilon, Y0, Y1, Y,
    \* random_data: control
    pc,             \* the line about to run, "done" after return or raise
    ret,            \* the returned tuple (<<>> while there is none)
    exc,            \* the exception the call ended with ("none" if none)
    excline,        \* the line that raised (0 if none)
    prev            \* the outcome of the previous call of the same caller

pvars == <<str_list, idx, stack, ppc, pret, early>>
args == <<N, K, unobservables, kwargs>>
locals == <<mu, beta, theta, delta, Sigma, Gamma, X, Xbeta, pscore, T, epsilon, Y0, Y1, Y>>
dvars == <<args, rng, rng0, warnings, locals, pc, ret, exc, excline, prev>>
vars == <<pvars, dvars>>

\* ------------------------------------------------- is_match_parenthesis
Tokens == {"(", ")", "x"}

TokenLists == UNION {[1..n -> Tokens] : n \in 0..MaxLen}

\* line 76: stack.append(str) pushes the builtin type str as the marker
Marker == "str"

\* line 75
IsOpen(cur_str) == cur_str = "("

\* line 77
IsClose(cur_str) == cur_str = ")"

\* mutant of StackEmpty: the test of line 78 never succeeds
StackNeverEmpty(s) == FALSE

\* line 78
StackEmpty(s) == Len(s) = 0

\* line 80: list.pop() removes the last element
Pop(s) == SubSeq(s, 1, Len(s) - 1)

\* mutant of FinalResult: the check of line 81 left out
FinalResultTrue(s) == TRUE

\* lines 81-83
FinalResult(s) == IF Len(s) # 0 THEN FALSE ELSE TRUE

\* lines 74-76: the token is "(": push
ParenPush ==
    /\ ppc = "loop" /\ idx <= Len(str_list)
    /\ IsOpen(str_list[idx])
    /\ stack' = Append(stack, Marker)
    /\ idx' = idx + 1
    /\ UNCHANGED <<str_list, ppc, pret, early>>
    /\ UNCHANGED dvars

\* lines 77-80: the token is ")" and the stack is not empty: pop
ParenPop ==
    /\ ppc = "loop" /\ idx <= Len(str_list)
    /\ ~IsOpen(str_list[idx]) /\ IsClose(str_list[idx])
    /\ ~StackEmpty(stack)
    /\ stack' = Pop(stack)
    /\ idx' = idx + 1
    /\ UNCHANGED <<str_list, ppc, pret, early>>
    /\ UNCHANGED dvars

\* lines 77-79: the token is ")" and the stack is empty: return False
ParenFail ==
    /\ ppc = "loop" /\ idx <= Len(str_list)
    /\ ~IsOpen(str_list[idx]) /\ IsClose(str_list[idx])
    /\ StackEmpty(stack)
    /\ pret' = FALSE
    /\ early' = TRUE
    /\ ppc' = "done"
    /\ UNCHANGED <<str_list, idx, stack>>
    /\ UNCHANGED dvars

\* lines 74-77: any other token: neither branch is taken
ParenSkip ==
    /\ ppc = "loop" /\ idx <= Len(str_list)
    /\ ~IsOpen(str_list[idx]) /\ ~IsClose(str_list[idx])
    /\ idx' = idx + 1
    /\ UNCHANGED <<str_list, stack, ppc, pret, early>>
    /\ UNCHANGED dvars

\* lines 81-83: the loop is exhausted
ParenFinish ==
    /\ ppc = "loop" /\ idx > Len(str_list)
    /\ pret' = FinalResult(stack)
    /\ ppc' = "done"
    /\ UNCHANGED <<str_list, idx, stack, early>>
    /\ UNCHANGED dvars

\* ---------------------------------------------------- numpy: arrays
\* A 1-D array is a sequence.  A 2-D array keeps its shape beside its rows,
\* because an array of 0 rows still has a number of columns.
NoArray == <<>>
NoMat == [shape |-> <<0, 0>>, data |-> <<>>]

\* mutant of identity: the 2 x 2 identity whatever n (the default of Gamma
\* used for Sigma)
IdentityTwo(n) ==
    [shape |-> <<2, 2>>,
     data |-> [i \in 1..2 |-> [j \in 1..2 |-> IF i = j THEN 1 ELSE 0]]]

\* np.zeros(n), np.ones(n), np.identity(n)
zeros(n) == [i \in 1..n |-> 0]
ones(n) == [i \in 1..n |-> 1]
identity(n) ==
    [shape |-> <<n, n>>,
     data |-> [i \in 1..n |-> [j \in 1..n |-> IF i = j THEN 1 ELSE 0]]]

RECURSIVE SumTo(_, _)
\* sum of f[1..n]
SumTo(f, n) == IF n = 0 THEN 0 ELSE SumTo(f, n - 1) + f[n]

\* a . b for two 1-D arrays of one length
Inner(a, b) == SumTo([k \in 1..Len(a) |-> a[k] * b[k]], Len(a))

\* column j of a 2-D array: M[:, j]
Column(M, j) == [i \in 1..M.shape[1] |-> M.data[i][j]]

\* ndarray.dot of a 2-D array with a 1-D array: defined when the columns of
\* the first are as many as the entries of the second (whatever the rows)
DotAligned(M, v) == M.shape[2] = Len(v)
Dot(M, v) == [i \in 1..M.shape[1] |-> Inner(M.data[i], v)]

\* a + b for two 1-D arrays, with numpy's broadcasting: equal lengths, or
\* one of them of length 1, which is stretched
Broadcastable(a, b) == Len(a) = Len(b) \/ Len(a) = 1 \/ Len(b) = 1
BLen(a, b) == IF Len(a) = 1 THEN Len(b) ELSE Len(a)
At(a, i) == IF Len(a) = 1 THEN a[1] ELSE a[i]
VAdd(a, b) == [i \in 1..BLen(a, b) |-> At(a, i) + At(b, i)]
VMul(a, b) == [i \in 1..BLen(a, b) |-> At(a, i) * At(b, i)]

\* scalar + array, scalar - array
SAdd(c, a) == [i \in 1..Len(a) |-> c + a[i]]
SSub(c, a) == [i \in 1..Len(a) |-> c - a[i]]

\* ------------------------------------------- numpy: the random source
\* np.random is one process-wide generator: a state, a step function, and
\* draws that are functions of the state: here a small full-period
\* congruential generator.
RngStep(s) == (5 * s + 3) % 16

RECURSIVE RngAt(_, _)
\* the state after n draws from state s
RngAt(s, n) == IF n = 0 THEN s ELSE RngAt(RngStep(s), n - 1)

\* one standard normal deviate drawn in state s
StdNormal(s) == (s % 3) - 1

\* one uniform deviate drawn in state s, in eighths
Uniform8(s) == s \div 2

\* mutant of BinomialCount: two trials instead of one
BinomialTwoTrials(p8, s) ==
    (IF Uniform8(s) < p8 THEN 1 ELSE 0) + (IF Uniform8(RngStep(s)) < p8 THEN 1 ELSE 0)

\* mutant of binomial: the trial is drawn from a source that the caller's
\* seeding does not reset, so a later call sees it advanced
BinomialUnseeded(p8, s) ==
    <<IF Uniform8(IF prev.called THEN RngStep(s) ELSE s) < p8 THEN 1 ELSE 0>>

\* np.random.binomial(1, p, size=1), p in eighths: one uniform deviate, and
\* the trial succeeds when it falls below p.  The result has shape (1,).
BinomialCount(p8, s) == IF Uniform8(s) < p8 THEN 1 ELSE 0
binomial(p8, s) == <<BinomialCount(p8, s)>>

\* scipy.stats.logistic.cdf, elementwise, in eighths: 8 / (1 + exp(-x))
\* rounded, and inside the open interval
Logistic8(x) ==
    CASE x <= -2 -> 1
      [] x = -1 -> 2
      [] x = 0 -> 4
      [] x = 1 -> 6
      [] OTHER -> 7
logistic_cdf(v) == [i \in 1..Len(v) |-> Logistic8(v[i])]

\* np.array([...]).flatten() of a list of arrays of shape (1,)
Flatten(l) == [i \in 1..Len(l) |-> l[i][1]]

\* np.random.multivariate_normal(mean, cov, size): the shape checks come
\* first and raise ValueError before anything is drawn
MvnShapeError(mean, cov) ==
    IF cov.shape[1] # cov.shape[2] THEN "ValueError: cov must be 2 dimensional and square"
    ELSE IF Len(mean) # cov.shape[1] THEN "ValueError: mean and cov must have same length"
    ELSE "none"

\* cov is a covariance matrix: symmetric, and x.cov.x >= 0 on the test
\* vectors over {-1, 0, 1}
IsSymmetric(cov) ==
    \A i \in 1..cov.shape[1], j \in 1..cov.shape[2] : cov.data[i][j] = cov.data[j][i]
IsPSD(cov) ==
    \A x \in [1..cov.shape[1] -> {-1, 0, 1}] : Inner(x, Dot(cov, x)) >= 0
IsValidCov(cov) == IsSymmetric(cov) /\ IsPSD(cov)

\* check_valid is left at its default 'warn': a cov that is not symmetric
\* positive-semidefinite gives a RuntimeWarning and the sample is returned
PsdWarning == "RuntimeWarning: covariance is not symmetric positive-semidefinite."
MvnWarnings(cov) == IF IsValidCov(cov) THEN {} ELSE {PsdWarning}

\* the size x d standard normals are drawn row by row, then multiplied by
\* the factor numpy computes from cov (taken to be cov itself, which it is
\* for the identity) and shifted by mean
MvnSample(mean, cov, size, s) ==
    LET d == Len(mean)
        z == [i \in 1..size |-> [k \in 1..d |-> StdNormal(RngAt(s, (i - 1) * d + k - 1))]]
    IN  [shape |-> <<size, d>>,
         data |-> [i \in 1..size |->
                     [j \in 1..d |-> Inner(z[i], Column(cov, j)) + mean[j]]]]
MvnRng(mean, size, s) == RngAt(s, size * Len(mean))

\* ------------------------------------------------------- random_data
\* What a caller supplies: it builds its parameters for one dimension d
\* (which may or may not be K) and passes any of them as keyword arguments.
\* Sigma is the identity, a matrix that is not symmetric (ones on and above
\* the diagonal) or one that is not square; Gamma is a 2 x 2 matrix that is
\* not symmetric or a 3 x 3 identity.
ConstVec(d, c) == [i \in 1..d |-> c]
UpperOnes(d) ==
    [shape |-> <<d, d>>,
     data |-> [i \in 1..d |-> [j \in 1..d |-> IF i <= j THEN 1 ELSE 0]]]
Wide(d) ==
    [shape |-> <<d, d + 1>>,
     data |-> [i \in 1..d |-> [j \in 1..(d + 1) |-> IF i = j THEN 1 ELSE 0]]]

Dims == 1..MaxK
SigmaChoices(d) == {identity(d), UpperOnes(d), Wide(d)}
GammaChoices == {UpperOnes(2), identity(3)}
Seeds == {0, 5}
Keys == {"mu", "beta", "theta", "delta", "Sigma", "Gamma"}

AllSupplied(d) ==
    [mu : {ConstVec(d, 1)}, beta : {ConstVec(d, -1)}, theta : {ConstVec(d, 2)},
     delta : {0}, Sigma : SigmaChoices(d), Gamma : GammaChoices]

\* **kwargs: a dictionary from the supplied keys to their values
Kwargs ==
    {[k \in S |-> full[k]] :
        full \in UNION {AllSupplied(d) : d \in Dims}, S \in SUBSET Keys}

\* dict.get(key, default)
kwargs_get(kw, key, default) == IF key \in DOMAIN kw THEN kw[key] ELSE default

NoCall == [called |-> FALSE, unobservables |-> FALSE, ret |-> <<>>, exc |-> "none"]

\* the locals of a call that has not assigned them yet
LocalsUnset ==
    /\ mu = NoArray /\ beta = NoArray /\ theta = NoArray /\ delta = 0
    /\ Sigma = NoMat /\ Gamma = NoMat
    /\ X = NoMat /\ Xbeta = NoArray /\ pscore = NoArray /\ T = NoArray
    /\ epsilon = NoMat /\ Y0 = NoArray /\ Y1 = NoArray /\ Y = NoArray

ParenIdle ==
    /\ str_list = <<>> /\ idx = 1 /\ stack = <<>>
    /\ ppc = "idle" /\ pret = FALSE /\ early = FALSE

DataIdle ==
    /\ N = 0 /\ K = 1 /\ unobservables = FALSE /\ kwargs = <<>>
    /\ rng = 0 /\ rng0 = 0 /\ warnings = {}
    /\ LocalsUnset
    /\ pc = "idle" /\ ret = <<>> /\ exc = "none" /\ excline = 0
    /\ prev = NoCall

\* line 5: a call of random_data, the random source in a seeded state
DataInit ==
    /\ ParenIdle
    /\ N \in 0..MaxN /\ K \in 1..MaxK /\ unobservables \in BOOLEAN
    /\ kwargs \in Kwargs
    /\ rng0 \in Seeds /\ rng = rng0 /\ warnings = {}
    /\ LocalsUnset
    /\ pc = "l43" /\ ret = <<>> /\ exc = "none" /\ excline = 0
    /\ prev = NoCall

\* line 66: a call of is_match_parenthesis
ParenInit ==
    /\ DataIdle
    /\ str_list \in TokenLists
    /\ idx = 1 /\ stack = <<>>
    /\ ppc = "loop" /\ pret = FALSE /\ early = FALSE

\* an exception leaves the call: nothing is returned
Raise(e, line) ==
    /\ exc' = e /\ excline' = line /\ pc' = "done"
    /\ UNCHANGED <<ret, rng0, prev, args, pvars>>

Step(next) ==
    /\ pc' = next
    /\ UNCHANGED <<ret, exc, excline, rng0, prev, args, pvars>>

\* lines 43-48: every parameter is the supplied one or its default
L43 ==
    /\ pc = "l43"
    /\ mu' = kwargs_get(kwargs, "mu", zeros(K))
    /\ beta' = kwargs_get(kwargs, "beta", ones(K))
    /\ theta' = kwargs_get(kwargs, "theta", ones(K))
    /\ delta' = kwargs_get(kwargs, "delta", 3)
    /\ Sigma' = kwargs_get(kwargs, "Sigma", identity(K))
    /\ Gamma' = kwargs_get(kwargs, "Gamma", identity(2))
    /\ Step("l50")
    /\ UNCHANGED <<X, Xbeta, pscore, T, epsilon, Y0, Y1, Y, rng, warnings>>

\* line 50: X = np.random.multivariate_normal(mean=mu, cov=Sigma, size=N)
L50 ==
    /\ pc = "l50"
    /\ MvnShapeError(mu, Sigma) = "none"
    /\ X' = MvnSample(mu, Sigma, N, rng)
    /\ rng' = MvnRng(mu, N, rng)
    /\ warnings' = warnings \cup MvnWarnings(Sigma)
    /\ Step("l51")
    /\ UNCHANGED <<mu, beta, theta, delta, Sigma, Gamma, Xbeta, pscore, T, epsilon, Y0, Y1, Y>>

L50Raise ==
    /\ pc = "l50"
    /\ MvnShapeError(mu, Sigma) # "none"
    /\ Raise(MvnShapeError(mu, Sigma), 50)
    /\ UNCHANGED <<locals, rng, warnings>>

\* lines 51-52: Xbeta = X.dot(beta); pscore = logistic.cdf(Xbeta)
L51 ==
    /\ pc = "l51"
    /\ DotAligned(X, beta)
    /\ Xbeta' = Dot(X, beta)
    /\ pscore' = logistic_cdf(Dot(X, beta))
    /\ Step("l53")
    /\ UNCHANGED <<mu, beta, theta, delta, Sigma, Gamma, X, T, epsilon, Y0, Y1, Y, rng, warnings>>

L51Raise ==
    /\ pc = "l51"
    /\ ~DotAligned(X, beta)
    /\ Raise("ValueError: shapes not aligned", 51)
    /\ UNCHANGED <<locals, rng, warnings>>

\* line 53: one np.random.binomial(1, p, size=1) per entry of pscore, in
\* order, then flattened
DrawT(p, s) == Flatten([i \in 1..Len(p) |-> binomial(p[i], RngAt(s, i - 1))])

L53 ==
    /\ pc = "l53"
    /\ T' = DrawT(pscore, rng)
    /\ rng' = RngAt(rng, Len(pscore))
    /\ Step("l55")
    /\ UNCHANGED <<mu, beta, theta, delta, Sigma, Gamma, X, Xbeta, pscore, epsilon, Y0, Y1, Y, warnings>>

\* line 55: epsilon = np.random.multivariate_normal(np.zeros(2), Gamma, N)
L55 ==
    /\ pc = "l55"
    /\ MvnShapeError(zeros(2), Gamma) = "none"
    /\ epsilon' = MvnSample(zeros(2), Gamma, N, rng)
    /\ rng' = MvnRng(zeros(2), N, rng)
    /\ warnings' = warnings \cup MvnWarnings(Gamma)
    /\ Step("l56")
    /\ UNCHANGED <<mu, beta, theta, delta, Sigma, Gamma, X, Xbeta, pscore, T, Y0, Y1, Y>>

L55Raise ==
    /\ pc = "l55"
    /\ MvnShapeError(zeros(2), Gamma) # "none"
    /\ Raise(MvnShapeError(zeros(2), Gamma), 55)
    /\ UNCHANGED <<locals, rng, warnings>>

\* line 57: beta + theta must broadcast, and X.dot of the sum must align
Y1Error(x, b, t) ==
    IF ~Broadcastable(b, t) THEN "ValueError: operands could not be broadcast together"
    ELSE IF ~DotAligned(x, VAdd(b, t)) THEN "ValueError: shapes not aligned"
    ELSE "none"

\* mutant of Observed: the two potential outcomes exchanged
ObservedSwapped(t, y0, y1) == VAdd(VMul(t, y0), VMul(SSub(1, t), y1))

\* line 58: Y = (1 - T) * Y0 + T * Y1
Observed(t, y0, y1) == VAdd(VMul(SSub(1, t), y0), VMul(t, y1))

\* lines 56-58: Y0, Y1 and Y
L56 ==
    /\ pc = "l56"
    /\ Y1Error(X, beta, theta) = "none"
    /\ Y0' = VAdd(Xbeta, Column(epsilon, 1))
    /\ Y1' = VAdd(SAdd(delta, Dot(X, VAdd(beta, theta))), Column(epsilon, 2))
    /\ Y' = Observed(T, Y0', Y1')
    /\ Step("l60")
    /\ UNCHANGED <<mu, beta, theta, delta, Sigma, Gamma, X, Xbeta, pscore, T, epsilon, rng, warnings>>

L56Raise ==
    /\ pc = "l56"
    /\ Y1Error(X, beta, theta) # "none"
    /\ Raise(Y1Error(X, beta, theta), 57)
    /\ UNCHANGED <<locals, rng, warnings>>

\* mutant of ReturnValue: the 5-tuple without pscore
ReturnValueNoPscore(u, y, t, x, y0, y1, p) ==
    IF u THEN <<y, t, x, y0, y1>> ELSE <<y, t, x>>

\* lines 60-63
ReturnValue(u, y, t, x, y0, y1, p) ==
    IF u THEN <<y, t, x, y0, y1, p>> ELSE <<y, t, x>>

L60 ==
    /\ pc = "l60"
    /\ ret' = ReturnValue(unobservables, Y, T, X, Y0, Y1, pscore)
    /\ pc' = "done"
    /\ UNCHANGED <<exc, excline, rng0, prev, args, locals, rng, warnings, pvars>>

\* the caller seeds the random source as before the first call and calls
\* random_data again with the same N, K and keyword arguments
CallAgain ==
    /\ pc = "done" /\ ~prev.called
    /\ prev' = [called |-> TRUE, unobservables |-> unobservables, ret |-> ret, exc |-> exc]
    /\ rng' = rng0
    /\ \E u \in BOOLEAN : unobservables' = u
    /\ mu' = NoArray /\ beta' = NoArray /\ theta' = NoArray /\ delta' = 0
    /\ Sigma' = NoMat /\ Gamma' = NoMat
    /\ X' = NoMat /\ Xbeta' = NoArray /\ pscore' = NoArray /\ T' = NoArray
    /\ epsilon' = NoMat /\ Y0' = NoArray /\ Y1' = NoArray /\ Y' = NoArray
    /\ pc' = "l43" /\ ret' = <<>> /\ exc' = "none" /\ excline' = 0
    /\ warnings' = {}
    /\ UNCHANGED <<N, K, kwargs, rng0, pvars>>

ParenNext == ParenPush \/ ParenPop \/ ParenFail \/ ParenSkip \/ ParenFinish

DataNext ==
    \/ L43 \/ L50 \/ L50Raise \/ L51 \/ L51Raise \/ L53 \/ L55 \/ L55Raise
    \/ L56 \/ L56Raise \/ L60 \/ CallAgain

SpecParen == ParenInit /\ [][ParenNext]_vars
SpecData == DataInit /\ [][DataNext]_vars

\* ------------------------------------------------ is_match_parenthesis
RECURSIVE Count(_, _, _)
\* how many of the first n tokens of s are tok
Count(tok, s, n) ==
    IF n = 0 THEN 0 ELSE Count(tok, s, n - 1) + (IF s[n] = tok THEN 1 ELSE 0)

\* "(" minus ")" among the first n tokens
Depth(s, n) == Count("(", s, n) - Count(")", s, n)

\* balance in the reference sense: no prefix has more ")" than "(", and the
\* whole list has as many of each
Balanced(s) ==
    /\ \A n \in 0..Len(s) : Depth(s, n) >= 0
    /\ Depth(s, Len(s)) = 0

\* C1: is_match_parenthesis returns True exactly when the "(" and ")" tokens
\* of the list are balanced (every other token ignored), False otherwise;
\* the empty list gives True.
C1_ReturnsBalance == ppc = "done" => pret = Balanced(str_list)

\* a list with an ignored token between a matched pair was accepted
C1_Witness ==
    /\ ppc = "done" /\ pret = TRUE /\ Len(str_list) >= 3
    /\ \E i, j, k \in 1..Len(str_list) :
          i < j /\ j < k /\ str_list[i] = "(" /\ str_list[j] = "x" /\ str_list[k] = ")"

\* the tokens before idx have been consumed
DepthInv ==
    ppc \in {"loop", "done"} =>
        /\ Len(stack) = Depth(str_list, idx - 1)
        /\ Depth(str_list, idx - 1) >= 0

\* a step that shortens the stack pops one marker off a non-empty stack;
\* a ")" met with an empty stack ends the call at once with False, the
\* position of the loop left where it is; a call that has returned is over
StepInv ==
    /\ Len(stack') < Len(stack) => (Len(stack) > 0 /\ Len(stack') = Len(stack) - 1)
    /\ (ppc = "loop" /\ idx <= Len(str_list) /\ str_list[idx] = ")" /\ Len(stack) = 0)
          => (ppc' = "done" /\ pret' = FALSE /\ idx' = idx /\ stack' = stack)
    /\ ppc = "done" => UNCHANGED pvars

\* C10: at every step of the loop the stack depth is the number of "("
\* minus the number of ")" among the tokens consumed so far and is never
\* negative; the stack is popped only when non-empty; a ")" met with an
\* empty stack returns False without consuming any further token.
C10_LoopInvariant == []DepthInv /\ [][StepInv]_vars

\* the early return was taken after a pair had been pushed and popped
C10_Witness ==
    /\ ppc = "done" /\ early /\ pret = FALSE /\ idx >= 3
    /\ str_list[1] = "(" /\ str_list[idx] = ")" /\ idx < Len(str_list)

\* ------------------------------------------------------------ random_data
Returned == pc = "done" /\ exc = "none"
Failed == pc = "done" /\ exc # "none"

\* C2: in every 6-tuple returned with unobservables=True, Y[i] is Y0[i]
\* where T[i] = 0 and Y1[i] where T[i] = 1.
C2_ObservedIsSelected ==
    (Returned /\ unobservables) =>
        /\ Len(ret[1]) = N /\ Len(ret[2]) = N
        /\ \A i \in 1..N :
              /\ ret[2][i] = 0 => ret[1][i] = ret[4][i]
              /\ ret[2][i] = 1 => ret[1][i] = ret[5][i]

\* a returned 6-tuple with a treated and an untreated unit whose potential
\* outcomes differ
C2_Witness ==
    /\ Returned /\ unobservables
    /\ \E i, j \in 1..N :
          /\ ret[2][i] = 0 /\ ret[2][j] = 1
          /\ ret[4][i] # ret[5][i] /\ ret[4][j] # ret[5][j]

\* the supplied parameters that depend on K have the dimension K
ConformsToK ==
    /\ \A k \in DOMAIN kwargs \cap {"mu", "beta", "theta"} : Len(kwargs[k]) = K
    /\ "Sigma" \in DOMAIN kwargs => kwargs["Sigma"].shape = <<K, K>>

\* C3: a call with any supplied parameter of a dimension incompatible with
\* K fails with a shape-mismatch error and returns nothing.
C3_MismatchFails ==
    (pc = "done" /\ ~ConformsToK) => (exc # "none" /\ ret = <<>>)

DomainError == "ValueError: covariance is not symmetric positive-semidefinite."

\* C4: a call whose Sigma is not a valid covariance matrix (here: the one
\* supplied parameter, K x K and not symmetric) fails with a domain error
\* raised from the sampling routine and produces no output arrays.
C4_InvalidSigmaFails ==
    (/\ pc = "done"
     /\ DOMAIN kwargs = {"Sigma"}
     /\ kwargs["Sigma"].shape = <<K, K>>
     /\ ~IsValidCov(kwargs["Sigma"]))
        => (exc = DomainError /\ excline = 50 /\ ret = <<>>)

\* every array of a returned tuple has no entry
AllEmpty(r) ==
    /\ r[1] = <<>> /\ r[2] = <<>> /\ r[3].shape[1] = 0 /\ r[3].data = <<>>
    /\ Len(r) = 6 => (r[4] = <<>> /\ r[5] = <<>> /\ r[6] = <<>>)

\* C5: with every optional parameter at its default, for all N >= 0 and
\* K >= 1, the call returns Y of length N, T of length N and X of shape
\* N x K; for N = 0 it does not fail and every returned array is empty.
C5_DefaultShapes ==
    (pc = "done" /\ DOMAIN kwargs = {}) =>
        /\ exc = "none"
        /\ Len(ret[1]) = N /\ Len(ret[2]) = N
        /\ ret[3].shape = <<N, K>>
        /\ Len(ret[3].data) = N
        /\ \A i \in 1..N : Len(ret[3].data[i]) = K
        /\ N = 0 => AllEmpty(ret)

\* a call with the defaults, no unit and more than one covariate returned
C5_Witness ==
    /\ Returned /\ DOMAIN kwargs = {} /\ N = 0 /\ K > 1 /\ unobservables
    /\ ret[3].shape = <<0, K>>

\* C6: a call that fails returns no partial arrays and leaves the random
\* source in the state it had at entry, whichever step raised.
C6_FailureLeavesNoTrace == Failed => (ret = <<>> /\ rng = rng0)

C9_TreatmentBinary ==
    Returned =>
        /\ \A i \in 1..Len(ret[2]) : ret[2][i] \in {0, 1}
        /\ Len(ret[2]) = Len(pscore)
        /\ Len(pscore) = N

\* a returned T holding both a 0 and a 1
C9_Witness ==
    /\ Returned /\ N >= 2
    /\ \E i, j \in 1..Len(ret[2]) : ret[2][i] = 0 /\ ret[2][j] = 1

====
